---- MODULE Spec2Model ----
EXTENDS Integers, Sequences, FiniteSets, TLC

(***************************************************************************)
(* A model of src/src/lib.rs: a separate-chaining hash table               *)
(* HashMap<K, V> with the entry protocol.                                  *)
(*                                                                         *)
(* Indices are 0-based as in the source: bucket index i is buckets[i + 1]  *)
(* and chain position p of a chain c is c[p + 1].  An Option<T> is a       *)
(* sequence of length at most one: <<>> is None, <<x>> is Some(x).         *)
(***************************************************************************)

\* Bounds of the model.
NumKeys == 2
MaxValue == 1
MaxDigest == 1

\* Program constants.
INITIAL_BUCKETS == 1
BUCKET_SCALE_FACTOR == 2
RESIZE_NUM == 3
RESIZE_DEN == 4

Keys == 1 .. NumKeys
Values == 0 .. MaxValue
Digests == 0 .. MaxDigest

\* V::default()
Default == 0

VARIABLES
    hash,       \* the digest DefaultHasher gives each key (fixed for a run)
    buckets,    \* HashMap.buckets : Vec<Vec<(K, V)>>
    items,      \* HashMap.items
    pc,         \* "idle" | "entry" (an Entry handle is live) |
                \* "ref" (a &mut V from the entry protocol is live) |
                \* "iter" (an HMIter is live) | "aborted"
    handle,     \* the live Entry (Occupied / Vacant)
    ref,        \* the place the live &mut V points to
    op,         \* the last call and what it returned
    produced,   \* how often the producer of the last or_insert_with ran
    iter,       \* the live HMIter: its cursor (bucket, item)
    yielded,    \* what the live HMIter has yielded so far, in order
    present,    \* history: the keys inserted and not removed since
    called      \* history: insert or entry has been called

vars == <<hash, buckets, items, pc, handle, ref, op, produced, iter, yielded,
          present, called>>

None == <<>>
Some(x) == <<x>>

At(s, i) == s[i + 1]

NoHandle == [tag |-> "None", key |-> 0, bucket |-> 0, pos |-> 0]
NoRef == [bucket |-> 0, pos |-> 0]
NoIter == [bucket |-> 0, item |-> 0]
\* A call on the table: its name, its arguments, what it returned and, for
\* the entry protocol, the arm of the match that ran
Call(name, key, value, ret, arm) ==
    [name |-> name, key |-> key, value |-> value, ret |-> ret, arm |-> arm]

----------------------------------------------------------------------------
\* Pure helpers

\* Mutant of resize_pred: the division by RESIZE_DEN is left out.
resize_pred_nodiv(n, bkts) == n >= RESIZE_NUM * bkts

\* resize_pred(items, buckets)
resize_pred(n, bkts) == n >= (RESIZE_NUM * bkts) \div RESIZE_DEN

\* HashMap::bucket, defined when the table has at least one bucket; with no
\* bucket the remainder by zero panics (see bucket_panics).
bucket(bkts, key) == hash[key] % Len(bkts)

bucket_panics(bkts) == Len(bkts) = 0

\* Mutant of position: the scan starts at the second pair of the chain.
position_skip_first(chain, key) ==
    IF \E i \in 2 .. Len(chain) : chain[i].k = key
    THEN Some((CHOOSE i \in 2 .. Len(chain) :
                  /\ chain[i].k = key
                  /\ \A j \in 2 .. i - 1 : chain[j].k # key) - 1)
    ELSE None

\* iter().position(|(k, _)| k == key): the first position holding key
position(chain, key) ==
    IF \E i \in 1 .. Len(chain) : chain[i].k = key
    THEN Some((CHOOSE i \in 1 .. Len(chain) :
                  /\ chain[i].k = key
                  /\ \A j \in 1 .. i - 1 : chain[j].k # key) - 1)
    ELSE None

\* Mutant of swap_remove: the last element is popped, whatever p is.
swap_remove_pop(chain, p) ==
    [i \in 1 .. Len(chain) - 1 |-> chain[i]]

\* Mutant of swap_remove: the chain is truncated at p.
swap_remove_truncate(chain, p) ==
    [i \in 1 .. p |-> chain[i]]

\* Vec::swap_remove: the last element takes the removed slot
swap_remove(chain, p) ==
    LET n == Len(chain)
    IN  [i \in 1 .. n - 1 |-> IF i = p + 1 THEN chain[n] ELSE chain[i]]

\* Vec::push on chain b of the bucket array
push(bkts, b, pair) ==
    [bkts EXCEPT ![b + 1] = Append(@, pair)]

\* flat_map(|b| b.drain(..)): all pairs, by bucket then by chain position
RECURSIVE drain(_)
drain(bkts) ==
    IF bkts = <<>> THEN <<>> ELSE Head(bkts) \o drain(Tail(bkts))

\* the for_each of resize: each pair is pushed to its chain of the new array
RECURSIVE rehash(_, _, _)
rehash(pairs, new_buckets, target_size) ==
    IF pairs = <<>> THEN new_buckets
    ELSE rehash(Tail(pairs),
                push(new_buckets, hash[Head(pairs).k] % target_size, Head(pairs)),
                target_size)

\* Mutant of resize: the pairs are rehashed modulo the old bucket count.
resize_stale(bkts) ==
    LET target_size == IF Len(bkts) = 0 THEN INITIAL_BUCKETS
                       ELSE Len(bkts) * BUCKET_SCALE_FACTOR
        old_size == IF Len(bkts) = 0 THEN INITIAL_BUCKETS ELSE Len(bkts)
    IN  rehash(drain(bkts), [i \in 1 .. target_size |-> <<>>], old_size)

\* Mutant of resize: the table grows by INITIAL_BUCKETS, not by the factor.
resize_grow_by_one(bkts) ==
    LET target_size == Len(bkts) + INITIAL_BUCKETS
    IN  rehash(drain(bkts), [i \in 1 .. target_size |-> <<>>], target_size)

\* HashMap::resize
resize(bkts) ==
    LET target_size == IF Len(bkts) = 0 THEN INITIAL_BUCKETS
                       ELSE Len(bkts) * BUCKET_SCALE_FACTOR
    IN  rehash(drain(bkts), [i \in 1 .. target_size |-> <<>>], target_size)

\* the growth check that opens insert and entry
grown(bkts, n) == IF resize_pred(n, Len(bkts)) THEN resize(bkts) ELSE bkts

\* HashMap::get as a function of the table: Some(v), or None
get(bkts, key) ==
    LET chain == At(bkts, bucket(bkts, key))
        p == position(chain, key)
    IN  IF p = None THEN None ELSE Some(At(chain, p[1]).v)

\* Mutant of contains_key: only the first pair of the chain is compared.
contains_key_first(bkts, key) ==
    LET chain == At(bkts, bucket(bkts, key))
    IN  chain # <<>> /\ chain[1].k = key

\* HashMap::contains_key as a function of the table
contains_key(bkts, key) == get(bkts, key) # None

\* Mutant of HMIter_next: moving to the next bucket keeps self.item.
RECURSIVE HMIter_next_noreset(_, _)
HMIter_next_noreset(bkts, c) ==
    IF c.bucket >= Len(bkts)
    THEN [ret |-> None, cur |-> c]
    ELSE IF c.item < Len(At(bkts, c.bucket))
         THEN [ret |-> Some(At(At(bkts, c.bucket), c.item)),
               cur |-> [c EXCEPT !.item = @ + 1]]
         ELSE HMIter_next_noreset(bkts, [bucket |-> c.bucket + 1,
                                         item |-> c.item])

\* HMIter::next from cursor c: what it returns and the cursor it leaves
RECURSIVE HMIter_next(_, _)
HMIter_next(bkts, c) ==
    IF c.bucket >= Len(bkts)
    THEN [ret |-> None, cur |-> c]
    ELSE IF c.item < Len(At(bkts, c.bucket))
         THEN [ret |-> Some(At(At(bkts, c.bucket), c.item)),
               cur |-> [c EXCEPT !.item = @ + 1]]
         ELSE HMIter_next(bkts, [bucket |-> c.bucket + 1, item |-> 0])

----------------------------------------------------------------------------
\* What is stored, read off the whole bucket array (no hashing involved)

\* the pairs of a bucket array
PairsOf(bkts) ==
    {bkts[b][i] : <<b, i>> \in
        {<<b, i>> \in (1 .. Len(bkts)) \X (1 .. NumKeys + 1) :
            i <= Len(bkts[b])}}

\* the values the pairs of key hold (one value, when key occurs once)
ValuesOf(bkts, key) == {q.v : q \in {r \in PairsOf(bkts) : r.k = key}}

\* the number of pairs over all chains
RECURSIVE PairCount(_)
PairCount(bkts) ==
    IF bkts = <<>> THEN 0 ELSE Len(Head(bkts)) + PairCount(Tail(bkts))

StoredIn(bkts, key) == ValuesOf(bkts, key) # {}

Stored(key) == StoredIn(buckets, key)

----------------------------------------------------------------------------
Init ==
    /\ hash \in [Keys -> Digests]
    /\ buckets = <<>>
    /\ items = 0
    /\ pc = "idle"
    /\ handle = NoHandle
    /\ ref = NoRef
    /\ op = Call("new", 0, 0, None, "")
    /\ produced = 0
    /\ iter = NoIter
    /\ yielded = <<>>
    /\ present = {}
    /\ called = FALSE

\* No call is running and the table can be borrowed: a live Entry, &mut V or
\* HMIter is dropped by the next call on the table.
Ready == pc \in {"idle", "entry", "ref", "iter"}

\* Mutant of Insert: the growth check runs only when the key is not found.
Insert_grow_on_new(key, value) ==
    /\ Ready
    /\ LET found == /\ ~bucket_panics(buckets)
                    /\ position(At(buckets, bucket(buckets, key)), key) # None
           b1 == IF found THEN buckets ELSE grown(buckets, items)
           b == bucket(b1, key)
           p == position(At(b1, b), key)
       IN  IF p # None
           THEN /\ buckets' = [b1 EXCEPT ![b + 1][p[1] + 1].v = value]
                /\ items' = items
                /\ op' = Call("insert", key, value, Some(At(At(b1, b), p[1]).v), "")
           ELSE /\ buckets' = push(b1, b, [k |-> key, v |-> value])
                /\ items' = items + 1
                /\ op' = Call("insert", key, value, None, "")
    /\ pc' = "idle"
    /\ handle' = NoHandle
    /\ ref' = NoRef
    /\ produced' = 0
    /\ UNCHANGED hash
    /\ iter' = NoIter
    /\ yielded' = <<>>
    /\ present' = present \cup {key}
    /\ called' = TRUE

\* HashMap::insert
Insert(key, value) ==
    /\ Ready
    /\ LET b1 == grown(buckets, items)
           b == bucket(b1, key)
           p == position(At(b1, b), key)
       IN  IF p # None
           THEN /\ buckets' = [b1 EXCEPT ![b + 1][p[1] + 1].v = value]
                /\ items' = items
                /\ op' = Call("insert", key, value, Some(At(At(b1, b), p[1]).v), "")
           ELSE /\ buckets' = push(b1, b, [k |-> key, v |-> value])
                /\ items' = items + 1
                /\ op' = Call("insert", key, value, None, "")
    /\ pc' = "idle"
    /\ handle' = NoHandle
    /\ ref' = NoRef
    /\ produced' = 0
    /\ UNCHANGED hash
    /\ iter' = NoIter
    /\ yielded' = <<>>
    /\ present' = present \cup {key}
    /\ called' = TRUE

\* Mutant of Entry: the bucket index is computed before the growth check.
Entry_stale(key) ==
    /\ Ready
    /\ LET b1 == grown(buckets, items)
           b == IF bucket_panics(buckets) THEN 0 ELSE bucket(buckets, key)
           p == position(At(b1, b), key)
       IN  /\ buckets' = b1
           /\ handle' = IF p # None
                        THEN [tag |-> "Occupied", key |-> key, bucket |-> b,
                              pos |-> p[1]]
                        ELSE [tag |-> "Vacant", key |-> key, bucket |-> b,
                              pos |-> 0]
    /\ pc' = "entry"
    /\ ref' = NoRef
    /\ op' = Call("entry", key, 0, None, "")
    /\ produced' = 0
    /\ UNCHANGED <<hash, items>>
    /\ iter' = NoIter
    /\ yielded' = <<>>
    /\ called' = TRUE
    /\ UNCHANGED present

\* Mutant of Entry: a key not found is stored at once, with the default
\* value, and the entry returned is Occupied.
Entry_eager(key) ==
    /\ Ready
    /\ LET b1 == grown(buckets, items)
           b == bucket(b1, key)
           p == position(At(b1, b), key)
       IN  IF p # None
           THEN /\ buckets' = b1
                /\ items' = items
                /\ handle' = [tag |-> "Occupied", key |-> key, bucket |-> b,
                              pos |-> p[1]]
           ELSE /\ buckets' = push(b1, b, [k |-> key, v |-> Default])
                /\ items' = items + 1
                /\ handle' = [tag |-> "Occupied", key |-> key, bucket |-> b,
                              pos |-> Len(At(b1, b))]
    /\ pc' = "entry"
    /\ ref' = NoRef
    /\ op' = Call("entry", key, 0, None, "")
    /\ produced' = 0
    /\ UNCHANGED hash
    /\ iter' = NoIter
    /\ yielded' = <<>>
    /\ called' = TRUE
    /\ UNCHANGED present

\* HashMap::entry: growth check, then one lookup pass
Entry(key) ==
    /\ Ready
    /\ LET b1 == grown(buckets, items)
           b == bucket(b1, key)
           p == position(At(b1, b), key)
       IN  /\ buckets' = b1
           /\ handle' = IF p # None
                        THEN [tag |-> "Occupied", key |-> key, bucket |-> b,
                              pos |-> p[1]]
                        ELSE [tag |-> "Vacant", key |-> key, bucket |-> b,
                              pos |-> 0]
    /\ pc' = "entry"
    /\ ref' = NoRef
    /\ op' = Call("entry", key, 0, None, "")
    /\ produced' = 0
    /\ UNCHANGED <<hash, items>>
    /\ iter' = NoIter
    /\ yielded' = <<>>
    /\ called' = TRUE
    /\ UNCHANGED present

\* HashMap::get
Get(key) ==
    /\ Ready
    /\ IF bucket_panics(buckets)
       THEN /\ pc' = "aborted"
            /\ op' = Call("get", key, 0, None, "")
       ELSE /\ pc' = "idle"
            /\ op' = Call("get", key, 0, get(buckets, key), "")
    /\ handle' = NoHandle
    /\ ref' = NoRef
    /\ produced' = 0
    /\ UNCHANGED <<hash, buckets, items>>
    /\ iter' = NoIter
    /\ yielded' = <<>>
    /\ UNCHANGED <<present, called>>

\* HashMap::contains_key
ContainsKey(key) ==
    /\ Ready
    /\ IF bucket_panics(buckets)
       THEN /\ pc' = "aborted"
            /\ op' = Call("contains_key", key, 0, None, "")
       ELSE /\ pc' = "idle"
            /\ op' = Call("contains_key", key, 0,
                          Some(contains_key(buckets, key)), "")
    /\ handle' = NoHandle
    /\ ref' = NoRef
    /\ produced' = 0
    /\ UNCHANGED <<hash, buckets, items>>
    /\ iter' = NoIter
    /\ yielded' = <<>>
    /\ UNCHANGED <<present, called>>

\* Mutant of Remove: the bucket array is released when the last pair goes.
Remove_shrink(key) ==
    /\ Ready
    /\ IF bucket_panics(buckets)
       THEN /\ pc' = "aborted"
            /\ op' = Call("remove", key, 0, None, "")
            /\ UNCHANGED <<buckets, items>>
       ELSE LET b == bucket(buckets, key)
                p == position(At(buckets, b), key)
            IN  /\ pc' = "idle"
                /\ IF p = None
                   THEN /\ op' = Call("remove", key, 0, None, "")
                        /\ UNCHANGED <<buckets, items>>
                   ELSE /\ items' = items - 1
                        /\ buckets' = IF items = 1 THEN <<>>
                                       ELSE [buckets EXCEPT
                                               ![b + 1] = swap_remove(@, p[1])]
                        /\ op' = Call("remove", key, 0,
                                      Some(At(At(buckets, b), p[1]).v), "")
    /\ handle' = NoHandle
    /\ ref' = NoRef
    /\ produced' = 0
    /\ UNCHANGED hash
    /\ iter' = NoIter
    /\ yielded' = <<>>
    /\ present' = present \ {key}
    /\ UNCHANGED called

\* HashMap::remove
Remove(key) ==
    /\ Ready
    /\ IF bucket_panics(buckets)
       THEN /\ pc' = "aborted"
            /\ op' = Call("remove", key, 0, None, "")
            /\ UNCHANGED <<buckets, items>>
       ELSE LET b == bucket(buckets, key)
                p == position(At(buckets, b), key)
            IN  /\ pc' = "idle"
                /\ IF p = None
                   THEN /\ op' = Call("remove", key, 0, None, "")
                        /\ UNCHANGED <<buckets, items>>
                   ELSE /\ items' = items - 1
                        /\ buckets' = [buckets EXCEPT
                                          ![b + 1] = swap_remove(@, p[1])]
                        /\ op' = Call("remove", key, 0,
                                      Some(At(At(buckets, b), p[1]).v), "")
    /\ handle' = NoHandle
    /\ ref' = NoRef
    /\ produced' = 0
    /\ UNCHANGED hash
    /\ iter' = NoIter
    /\ yielded' = <<>>
    /\ present' = present \ {key}
    /\ UNCHANGED called

\* HashMap::len
LenCall ==
    /\ Ready
    /\ pc' = "idle"
    /\ op' = Call("len", 0, 0, Some(items), "")
    /\ handle' = NoHandle
    /\ ref' = NoRef
    /\ produced' = 0
    /\ UNCHANGED <<hash, buckets, items>>
    /\ iter' = NoIter
    /\ yielded' = <<>>
    /\ UNCHANGED <<present, called>>

\* Mutant of VacantEntry_insert: the reference returned is to the first pair
\* of the chain (first_mut for last_mut).
VacantEntry_insert_first(h, value) ==
    /\ buckets' = push(buckets, h.bucket, [k |-> h.key, v |-> value])
    /\ items' = items + 1
    /\ ref' = [bucket |-> h.bucket, pos |-> 0]

\* Mutant of VacantEntry_insert: self.map.items += 1 is left out.
VacantEntry_insert_nocount(h, value) ==
    /\ buckets' = push(buckets, h.bucket, [k |-> h.key, v |-> value])
    /\ items' = items
    /\ ref' = [bucket |-> h.bucket, pos |-> Len(At(buckets, h.bucket))]

\* VacantEntry::insert: push to the chain found by entry, count, and return
\* a reference to the value of the last pair of that chain
VacantEntry_insert(h, value) ==
    /\ buckets' = push(buckets, h.bucket, [k |-> h.key, v |-> value])
    /\ items' = items + 1
    /\ ref' = [bucket |-> h.bucket, pos |-> Len(At(buckets, h.bucket))]

\* the Occupied arm of or_insert / or_insert_with / or_default: &mut e.entry.1
Occupied_ref(h) ==
    /\ ref' = [bucket |-> h.bucket, pos |-> h.pos]
    /\ UNCHANGED <<buckets, items>>

\* the value a reference points to
Deref(bkts, r) == At(At(bkts, r.bucket), r.pos).v

\* Mutant of OrInsert: the Occupied arm stores the value it was given.
OrInsert_overwrite(value) ==
    /\ pc = "entry"
    /\ IF handle.tag = "Occupied"
       THEN /\ ref' = [bucket |-> handle.bucket, pos |-> handle.pos]
            /\ buckets' = [buckets EXCEPT
                              ![handle.bucket + 1][handle.pos + 1].v = value]
            /\ items' = items
       ELSE VacantEntry_insert(handle, value)
    /\ pc' = "ref"
    /\ handle' = NoHandle
    /\ op' = Call("or_insert", handle.key, value, Some(Deref(buckets', ref')),
                  handle.tag)
    /\ produced' = 0
    /\ UNCHANGED hash
    /\ present' = present \cup {handle.key}
    /\ UNCHANGED <<iter, yielded, called>>

\* Entry::or_insert
OrInsert(value) ==
    /\ pc = "entry"
    /\ IF handle.tag = "Occupied"
       THEN Occupied_ref(handle)
       ELSE VacantEntry_insert(handle, value)
    /\ pc' = "ref"
    /\ handle' = NoHandle
    /\ op' = Call("or_insert", handle.key, value, Some(Deref(buckets', ref')),
                  handle.tag)
    /\ produced' = 0
    /\ UNCHANGED hash
    /\ present' = present \cup {handle.key}
    /\ UNCHANGED <<iter, yielded, called>>

\* Mutant of OrInsertWith: the producer runs before the match, in both arms.
OrInsertWith_eager(value) ==
    /\ pc = "entry"
    /\ produced' = 1
    /\ IF handle.tag = "Occupied"
       THEN Occupied_ref(handle)
       ELSE VacantEntry_insert(handle, value)
    /\ pc' = "ref"
    /\ handle' = NoHandle
    /\ op' = Call("or_insert_with", handle.key, value,
                  Some(Deref(buckets', ref')), handle.tag)
    /\ UNCHANGED hash
    /\ present' = present \cup {handle.key}
    /\ UNCHANGED <<iter, yielded, called>>

\* Entry::or_insert_with, for a producer that returns value
OrInsertWith(value) ==
    /\ pc = "entry"
    /\ IF handle.tag = "Occupied"
       THEN /\ Occupied_ref(handle)
            /\ produced' = 0
       ELSE /\ VacantEntry_insert(handle, value)
            /\ produced' = 1
    /\ pc' = "ref"
    /\ handle' = NoHandle
    /\ op' = Call("or_insert_with", handle.key, value,
                  Some(Deref(buckets', ref')), handle.tag)
    /\ UNCHANGED hash
    /\ present' = present \cup {handle.key}
    /\ UNCHANGED <<iter, yielded, called>>

\* Entry::or_default
OrDefault ==
    /\ pc = "entry"
    /\ IF handle.tag = "Occupied"
       THEN Occupied_ref(handle)
       ELSE VacantEntry_insert(handle, Default)
    /\ pc' = "ref"
    /\ handle' = NoHandle
    /\ op' = Call("or_default", handle.key, Default,
                  Some(Deref(buckets', ref')), handle.tag)
    /\ produced' = 0
    /\ UNCHANGED hash
    /\ present' = present \cup {handle.key}
    /\ UNCHANGED <<iter, yielded, called>>

\* An assignment through the &mut V the entry protocol returned
WriteRef(value) ==
    /\ pc = "ref"
    /\ buckets' = [buckets EXCEPT ![ref.bucket + 1][ref.pos + 1].v = value]
    /\ op' = Call("write", op.key, value, None, op.arm)
    /\ UNCHANGED <<hash, items, pc, handle, ref, produced>>
    /\ UNCHANGED <<iter, yielded, present, called>>

\* Mutant of Index: an absent key gives the default value
\* (unwrap_or_default for expect).
Index_or_default(key) ==
    /\ Ready
    /\ IF bucket_panics(buckets)
       THEN /\ pc' = "aborted"
            /\ op' = Call("index", key, 0, None, "")
       ELSE /\ pc' = "idle"
            /\ op' = Call("index", key, 0,
                          IF get(buckets, key) = None THEN Some(Default)
                          ELSE get(buckets, key), "")
    /\ handle' = NoHandle
    /\ ref' = NoRef
    /\ produced' = 0
    /\ iter' = NoIter
    /\ yielded' = <<>>
    /\ UNCHANGED <<hash, buckets, items, present, called>>

\* Index::index: self.get(index).expect("no entry found for key")
Index(key) ==
    /\ Ready
    /\ IF bucket_panics(buckets) \/ get(buckets, key) = None
       THEN /\ pc' = "aborted"
            /\ op' = Call("index", key, 0, None, "")
       ELSE /\ pc' = "idle"
            /\ op' = Call("index", key, 0, get(buckets, key), "")
    /\ handle' = NoHandle
    /\ ref' = NoRef
    /\ produced' = 0
    /\ iter' = NoIter
    /\ yielded' = <<>>
    /\ UNCHANGED <<hash, buckets, items, present, called>>

\* IntoIterator::into_iter for &HashMap
IntoIter ==
    /\ Ready
    /\ pc' = "iter"
    /\ iter' = [bucket |-> 0, item |-> 0]
    /\ yielded' = <<>>
    /\ op' = Call("into_iter", 0, 0, None, "")
    /\ handle' = NoHandle
    /\ ref' = NoRef
    /\ produced' = 0
    /\ UNCHANGED <<hash, buckets, items, present, called>>

\* HMIter::next
NextCall ==
    /\ pc = "iter"
    /\ LET r == HMIter_next(buckets, iter)
       IN  /\ iter' = r.cur
           /\ yielded' = yielded \o r.ret
           /\ op' = Call("next", 0, 0, r.ret, "")
    /\ UNCHANGED <<hash, buckets, items, pc, handle, ref, produced, present,
                   called>>

Next ==
    \/ \E key \in Keys, value \in Values : Insert(key, value)
    \/ \E key \in Keys : Entry(key)
    \/ \E key \in Keys : Get(key)
    \/ \E key \in Keys : ContainsKey(key)
    \/ \E key \in Keys : Remove(key)
    \/ LenCall
    \/ \E value \in Values : OrInsert(value)
    \/ \E value \in Values : OrInsertWith(value)
    \/ OrDefault
    \/ \E value \in Values : WriteRef(value)
    \/ \E key \in Keys : Index(key)
    \/ IntoIter
    \/ NextCall

Spec == Init /\ [][Next]_vars

----------------------------------------------------------------------------
\* Properties

Lookups == {"get", "remove", "contains_key"}
EntryOps == {"or_insert", "or_insert_with", "or_default"}

\* C1: get(k), remove(k) and contains_key(k) of a key k that is not stored
\* return None / false and never abort, in every reachable state, the
\* freshly constructed table included.
C1_AbsenceIsData ==
    [][(op'.name \in Lookups /\ ~Stored(op'.key)) =>
          /\ pc' # "aborted"
          /\ op'.ret = IF op'.name = "contains_key" THEN Some(FALSE) ELSE None
      ]_vars

\* C2: insert(k, v) makes get(k) return v, and every later call on another
\* key (insert, entry and what follows it, remove, a resize included) leaves
\* what get(k) returns as it is.
C2_RoundTrip ==
    [][/\ op'.name = "insert" => get(buckets', op'.key) = Some(op'.value)
       /\ \A k \in Keys :
            (/\ ~bucket_panics(buckets)
             /\ get(buckets, k) # None
             /\ pc' # "aborted"
             /\ op'.key # k) => get(buckets', k) = get(buckets, k)
      ]_vars

\* C2 witness: an insert of another key has just grown the table from one
\* bucket to two while a key was stored, and get still finds that key.
C2_Witness ==
    /\ op.name = "insert"
    /\ op.ret = None
    /\ items = 2
    /\ Len(buckets) = 2
    /\ \E k \in Keys \ {op.key} : get(buckets, k) # None

\* C3: insert(k, v) of a key that is not stored returns None and adds one to
\* len(); of a key stored with v0 it returns Some(v0), stores v in its place
\* and leaves len() as it is.
C3_Insert ==
    [][op'.name = "insert" =>
          IF ~Stored(op'.key)
          THEN /\ op'.ret = None
               /\ items' = items + 1
               /\ ValuesOf(buckets', op'.key) = {op'.value}
          ELSE /\ \E v0 \in Values : /\ ValuesOf(buckets, op'.key) = {v0}
                                     /\ op'.ret = Some(v0)
               /\ ValuesOf(buckets', op'.key) = {op'.value}
               /\ items' = items
      ]_vars

\* C3 witness: an insert has replaced a stored value by a different one.
C3_Witness ==
    /\ op.name = "insert"
    /\ op.ret # None
    /\ op.ret # Some(op.value)
    /\ items = 2

\* C4: remove(k) of a key stored with v returns Some(v), takes one from
\* len(), and right after it get(k) is None and contains_key(k) is false.
C4_Remove ==
    [][(op'.name = "remove" /\ Stored(op'.key)) =>
          /\ pc' # "aborted"
          /\ \E v \in Values : /\ ValuesOf(buckets, op'.key) = {v}
                               /\ op'.ret = Some(v)
          /\ items' = items - 1
          /\ get(buckets', op'.key) = None
          /\ ~contains_key(buckets', op'.key)
      ]_vars

\* C4 witness: a remove has returned a value and another pair is left.
C4_Witness ==
    /\ op.name = "remove"
    /\ op.ret # None
    /\ items = 1

\* C5: remove(k) of a key that is not stored (never inserted, or removed
\* before) returns None and changes nothing: len(), the bucket count and
\* every stored pair stay.
C5_RemoveAbsent ==
    [][(op'.name = "remove" /\ ~Stored(op'.key)) =>
          /\ pc' # "aborted"
          /\ op'.ret = None
          /\ buckets' = buckets
          /\ items' = items
      ]_vars

\* C6: for a key k that is not stored, entry(k) stores nothing yet, and the
\* or_insert(v), or_insert_with(f) with f() = v, or or_default() (v the
\* default value) that follows stores (k, v), adds one to len() and makes
\* get(k) return v; so also when entry grows the table or is the first call.
C6_VacantMaterializes ==
    [][/\ (op'.name = "entry" /\ ~Stored(op'.key)) =>
            /\ items' = items
            /\ ~StoredIn(buckets', op'.key)
       /\ (op'.name \in EntryOps /\ ~Stored(op'.key)) =>
            /\ ValuesOf(buckets', op'.key) = {op'.value}
            /\ items' = items + 1
            /\ get(buckets', op'.key) = Some(op'.value)
            /\ op'.name = "or_default" => op'.value = Default
      ]_vars

\* C6 witness: an or_insert has stored the first pair of a table that its
\* entry call grew from no bucket to one.
C6_Witness ==
    /\ op.name = "or_insert"
    /\ op.arm = "Vacant"
    /\ Len(buckets) = 1
    /\ items = 1
    /\ get(buckets, op.key) = Some(op.value)

\* C7: for a key k stored with v1, entry(k).or_insert(v2) returns v1 and
\* leaves len() and the value of every key, k included, as they are.
C7_OccupiedIdempotent ==
    [][/\ (op'.name = "entry" /\ Stored(op'.key)) =>
            /\ items' = items
            /\ \A k \in Keys : ValuesOf(buckets', k) = ValuesOf(buckets, k)
       /\ (op'.name = "or_insert" /\ Stored(op'.key)) =>
            /\ \E v1 \in Values : /\ ValuesOf(buckets, op'.key) = {v1}
                                  /\ op'.ret = Some(v1)
            /\ items' = items
            /\ \A k \in Keys : ValuesOf(buckets', k) = ValuesOf(buckets, k)
      ]_vars

\* C7 witness: an or_insert on a stored key has returned a value other than
\* the one it was given.
C7_Witness ==
    /\ op.name = "or_insert"
    /\ op.arm = "Occupied"
    /\ op.ret # Some(op.value)
    /\ items = 2

\* C8: the reference or_insert (or_insert_with, or_default) returns shows the
\* value stored for k, and a write of w through it makes get(k) return w and
\* changes the value of no other key, in the Occupied and the Vacant case.
C8_LiveReference ==
    [][/\ op'.name \in EntryOps => op'.ret = get(buckets', op'.key)
       /\ op'.name = "write" =>
            /\ get(buckets', op'.key) = Some(op'.value)
            /\ ValuesOf(buckets', op'.key) = {op'.value}
            /\ items' = items
            /\ \A k \in Keys \ {op'.key} :
                  ValuesOf(buckets', k) = ValuesOf(buckets, k)
      ]_vars

\* C8 witness: a write went through the reference of an Occupied entry while
\* another key was stored.
C8_Witness ==
    /\ op.name = "write"
    /\ op.arm = "Occupied"
    /\ items = 2
    /\ get(buckets, op.key) = Some(op.value)

\* C9: in entry(k).or_insert_with(f) the producer f runs once when k is not
\* stored and not at all when k is stored.
C9_Laziness ==
    [][op'.name = "or_insert_with" =>
          produced' = IF Stored(op'.key) THEN 0 ELSE 1
      ]_vars

\* C9 witness: an or_insert_with on a stored key has returned the stored
\* value, not the one its producer would give.
C9_Witness ==
    /\ op.name = "or_insert_with"
    /\ op.arm = "Occupied"
    /\ op.ret # Some(op.value)
    /\ produced = 0

\* C10: right after an insert or an entry(..).or_insert (or_insert_with,
\* or_default) call, len() <= (3 * bucket_count) / 4 + 1.
C10_LoadFactor ==
    op.name \in {"insert"} \cup EntryOps =>
        items <= (3 * Len(buckets)) \div 4 + 1

\* C10 witness: an insert has filled the table up to the bound.
C10_Witness ==
    /\ op.name = "insert"
    /\ Len(buckets) = 2
    /\ items = (3 * Len(buckets)) \div 4 + 1

\* C11: an iteration yields the pairs of the table in ascending bucket index
\* then ascending chain position; when next() reports exhaustion it has
\* yielded exactly len() pairs, every stored key once with its current
\* value, and the next() after that reports exhaustion again.  So for every
\* reachable table, the one with no bucket and an emptied one included.
C11_Iteration ==
    pc = "iter" =>
        /\ Len(yielded) <= Len(drain(buckets))
        /\ \A i \in 1 .. Len(yielded) : yielded[i] = drain(buckets)[i]
        /\ (op.name = "next" /\ op.ret # None) =>
              /\ yielded # <<>>
              /\ op.ret = Some(yielded[Len(yielded)])
        /\ (op.name = "next" /\ op.ret = None) =>
              /\ yielded = drain(buckets)
              /\ Len(yielded) = items
              /\ {yielded[i].k : i \in 1 .. Len(yielded)} = present
              /\ Cardinality(present) = Len(yielded)
              /\ \A i \in 1 .. Len(yielded) :
                    get(buckets, yielded[i].k) = Some(yielded[i].v)
              /\ HMIter_next(buckets, iter).ret = None

\* C11 witness: an iteration over two pairs in different buckets has ended.
C11_Witness ==
    /\ pc = "iter"
    /\ op.name = "next"
    /\ op.ret = None
    /\ Len(yielded) = 2
    /\ iter.bucket = Len(buckets)
    /\ \E b \in 1 .. Len(buckets) : Len(buckets[b]) = 1

\* C12: table[k] returns the value stored for k, the one get(k) gives, when
\* k is stored, and aborts without returning anything when k is not stored,
\* in every reachable state.
C12_Index ==
    op.name = "index" =>
        IF Stored(op.key)
        THEN /\ pc # "aborted"
             /\ op.ret # None
             /\ op.ret = get(buckets, op.key)
             /\ ValuesOf(buckets, op.key) = {op.ret[1]}
        ELSE /\ pc = "aborted"
             /\ op.ret = None

\* C12 witness: indexing by a key that is not stored has aborted on a table
\* that holds another key.
C12_Witness ==
    /\ op.name = "index"
    /\ pc = "aborted"
    /\ items = 1
    /\ ~Stored(op.key)

\* C13: for every key k, contains_key(k) is true exactly when get(k) returns
\* a value, and that is exactly when k has been inserted (by insert or by a
\* Vacant entry insertion) and not removed since; so for the results of the
\* calls made and in every reachable state.
C13_ContainsKey ==
    /\ \A k \in Keys :
          /\ (~bucket_panics(buckets) /\ contains_key(buckets, k)) =
                (~bucket_panics(buckets) /\ get(buckets, k) # None)
          /\ (~bucket_panics(buckets) /\ get(buckets, k) # None) =
                (k \in present)
    /\ op.name = "contains_key" => (op.ret = Some(TRUE)) = (op.key \in present)
    /\ op.name = "get" => (op.ret # None) = (op.key \in present)

\* C13 witness: contains_key has found a key that is second in its chain.
C13_Witness ==
    /\ op.name = "contains_key"
    /\ op.ret = Some(TRUE)
    /\ \E b \in 1 .. Len(buckets) :
          Len(buckets[b]) = 2 /\ buckets[b][2].k = op.key

\* C14: in every reachable state items is the number of pairs over all
\* chains, so len() returns the pair count and the decrement of remove never
\* takes items below zero.
C14_ItemCount ==
    /\ items = PairCount(buckets)
    /\ items >= 0
    /\ op.name = "len" => op.ret = Some(PairCount(buckets))

\* C14 witness: after inserts, two resizes and a remove one pair is left.
C14_Witness ==
    /\ op.name = "remove"
    /\ op.ret # None
    /\ items = 1
    /\ Len(buckets) = 4

\* C15: in every reachable state each stored pair (k, v) lies in the chain
\* with index hash(k) mod bucket_count and no key occurs twice; the keys
\* stored are those inserted and not removed, so a resize loses and
\* duplicates none, and a Vacant entry insertion lands in the chain of the
\* bucket count current when the pair is appended.
C15_Placement ==
    /\ \A b \in 1 .. Len(buckets) : \A i \in 1 .. Len(buckets[b]) :
          /\ hash[buckets[b][i].k] % Len(buckets) = b - 1
          /\ \A c \in 1 .. Len(buckets) : \A j \in 1 .. Len(buckets[c]) :
                buckets[c][j].k = buckets[b][i].k => (c = b /\ j = i)
    /\ {q.k : q \in PairsOf(buckets)} = present

\* C15 witness: a Vacant entry insertion, whose entry call grew the table
\* from one bucket to two, has put its pair in the second chain.
C15_Witness ==
    /\ op.name \in EntryOps
    /\ op.arm = "Vacant"
    /\ Len(buckets) = 2
    /\ items = 2
    /\ hash[op.key] % 2 = 1
    /\ \E i \in 1 .. Len(buckets[2]) : buckets[2][i].k = op.key

\* C16: the bucket count changes only in an insert or entry call, only when
\* len() >= (3 * bucket_count) / 4 held at the start of the call, and then
\* once: to 1 from 0, to twice its value otherwise.  get, contains_key, len,
\* indexing, iteration and remove leave it, so it never decreases.
C16_Capacity ==
    [][/\ Len(buckets') # Len(buckets) =>
            /\ op'.name \in {"insert", "entry"}
            /\ items >= (3 * Len(buckets)) \div 4
            /\ Len(buckets') = IF Len(buckets) = 0 THEN 1
                               ELSE 2 * Len(buckets)
       /\ Len(buckets') >= Len(buckets)
       /\ op'.name \in {"get", "contains_key", "len", "index", "into_iter",
                        "next", "remove"} => Len(buckets') = Len(buckets)
      ]_vars

\* C16 witness: an entry call on the one stored key has grown the table from
\* one bucket to two.
C16_Witness ==
    /\ op.name = "entry"
    /\ handle.tag = "Occupied"
    /\ Len(buckets) = 2
    /\ items = 1

RECURSIVE IsPowerOfTwo(_)
IsPowerOfTwo(n) ==
    IF n <= 1 THEN n = 1 ELSE n % 2 = 0 /\ IsPowerOfTwo(n \div 2)

\* C17: the bucket count is 0 exactly while insert and entry have never been
\* called and at least 1 ever after, also when every key is removed again;
\* it is always 0 or a power of two, so never 3.
C17_BucketCount ==
    /\ (Len(buckets) = 0) = ~called
    /\ Len(buckets) = 0 \/ IsPowerOfTwo(Len(buckets))
    /\ Len(buckets) # 3

\* C17 witness: the last key has been removed and the buckets are kept.
C17_Witness ==
    /\ op.name = "remove"
    /\ op.ret # None
    /\ items = 0
    /\ called
    /\ Len(buckets) >= 2

KeysOf(bkts) == {q.k : q \in PairsOf(bkts)}

\* C18: an insert(k, v) or entry(k) call on a stored key k, made when
\* len() >= (3 * bucket_count) / 4, doubles the bucket count and rehashes
\* every pair, though len() does not grow: len() and the key set stay, and
\* no value changes but, for insert, the one of k.
C18_GrowthOnUpdate ==
    [][(/\ op'.name \in {"insert", "entry"}
        /\ Stored(op'.key)
        /\ items >= (3 * Len(buckets)) \div 4) =>
          /\ Len(buckets') = 2 * Len(buckets)
          /\ \A b \in 1 .. Len(buckets') : \A i \in 1 .. Len(buckets'[b]) :
                hash[buckets'[b][i].k] % Len(buckets') = b - 1
          /\ items' = items
          /\ KeysOf(buckets') = KeysOf(buckets)
          /\ \A k \in Keys \ {op'.key} :
                ValuesOf(buckets', k) = ValuesOf(buckets, k)
          /\ ValuesOf(buckets', op'.key) =
                IF op'.name = "insert" THEN {op'.value}
                ELSE ValuesOf(buckets, op'.key)
      ]_vars

\* C18 witness: an insert that replaced the value of the one stored key has
\* grown the table from one bucket to two.
C18_Witness ==
    /\ op.name = "insert"
    /\ op.ret # None
    /\ Len(buckets) = 2
    /\ items = 1

C20_EntryDropped ==
    [][/\ op'.name = "entry" =>
            /\ items' = items
            /\ PairsOf(buckets') = PairsOf(buckets)
            /\ ~(items >= (3 * Len(buckets)) \div 4) => buckets' = buckets
       /\ (pc = "entry" /\ op'.name \in {"get", "contains_key", "len",
                                         "index", "into_iter"}) =>
            /\ buckets' = buckets
            /\ items' = items
      ]_vars

\* C20 witness: an entry call on a key that is not stored has grown the
\* table from one bucket to two and returned a Vacant handle.
C20_Witness ==
    /\ pc = "entry"
    /\ handle.tag = "Vacant"
    /\ Len(buckets) = 2
    /\ items = 1

====
